---- MODULE Spec2Model ----
(***************************************************************************)
(* Model of catalyst/exchange/exchange_blotter.py:                         *)
(*   TradingPairFeeSchedule.calculate   (commission engine)                *)
(*   TradingPairFixedSlippage.simulate / process_order (slippage engine)   *)
(*   ExchangeBlotter.__init__           (one shared model instance)        *)
(*                                                                         *)
(* Numbers are exact rationals [kind, n, d] (value n/d, d > 0); kind is    *)
(* the Python type ("int" or "float"), which decides whether the operator  *)
(* & of process_order is defined.  Order amounts and bar volumes are       *)
(* integers (units of the base currency).                                  *)
(***************************************************************************)
EXTENDS Integers, Sequences, FiniteSets, TLC

VARIABLES
    spread,          \* TradingPairFixedSlippage.spread
    volume_for_bar,  \* TradingPairFixedSlippage._volume_for_bar (instance field)
    gens,            \* the generators returned by simulate(), by call id
    schedule,        \* TradingPairFeeSchedule: [maker_fee, taker_fee]
    feeCall          \* the latest calculate(order, transaction) call and its result

vars == <<spread, volume_for_bar, gens, schedule, feeCall>>

-----------------------------------------------------------------------------
(* Bounds of the model *)

MaxOrders == 2
MaxAmount == 2
MaxVolume == 2
MaxClose == 2

-----------------------------------------------------------------------------
(* Python numbers *)

IntNum(i) == [kind |-> "int", n |-> i, d |-> 1]
FloatNum(a, b) == [kind |-> "float", n |-> a, d |-> b]

ResultKind(a, b) == IF a.kind = "int" /\ b.kind = "int" THEN "int" ELSE "float"

NumMul(a, b) == [kind |-> ResultKind(a, b), n |-> a.n * b.n, d |-> a.d * b.d]
NumAdd(a, b) == [kind |-> ResultKind(a, b), n |-> a.n * b.d + b.n * a.d, d |-> a.d * b.d]
NumSub(a, b) == [kind |-> ResultKind(a, b), n |-> a.n * b.d - b.n * a.d, d |-> a.d * b.d]
NumEq(a, b) == a.n * b.d = b.n * a.d
NumLeq(a, b) == a.n * b.d <= b.n * a.d
NumIsZero(a) == a.n = 0

Abs(i) == IF i < 0 THEN -i ELSE i

\* int & int on non-negative operands
RECURSIVE BitAnd(_, _)
BitAnd(a, b) ==
    IF a = 0 \/ b = 0 THEN 0
    ELSE (a % 2) * (b % 2) + 2 * BitAnd(a \div 2, b \div 2)

DEFAULT_SLIPPAGE_SPREAD == FloatNum(2, 100)
DEFAULT_MAKER_FEE == FloatNum(1, 1000)
DEFAULT_TAKER_FEE == FloatNum(2, 1000)


-----------------------------------------------------------------------------
(* Collaborators: Order, market data bar, liquidity policy *)

NoLimit == 0

\* Order.check_triggers(price, dt): sets the order's triggered flag from its
\* limit price (a market order is always triggered).
CheckTriggers(order, price, dt) ==
    [order EXCEPT !.triggered =
        IF order.limit = NoLimit THEN TRUE
        ELSE IF order.amount > 0 THEN NumLeq(price, IntNum(order.limit))
        ELSE NumLeq(IntNum(order.limit), price)]

\* The liquidity policy raises LiquidityExceeded while the execution volume of
\* the order at position i is determined.
LiquidityExceeded(g, i) == g.liqAt = i

-----------------------------------------------------------------------------
(* TradingPairFeeSchedule *)

Cost(transaction) == NumMul(IntNum(Abs(transaction.amount)), transaction.price)

CalculateMakerForLimit(sched, order, transaction) ==
    NumMul(Cost(transaction),
           IF order.limit = NoLimit THEN sched.taker_fee ELSE sched.maker_fee)

CostSigned(transaction) == NumMul(IntNum(transaction.amount), transaction.price)

CalculateSigned(sched, order, transaction) ==
    NumMul(CostSigned(transaction), sched.taker_fee)

Calculate(sched, order, transaction) == NumMul(Cost(transaction), sched.taker_fee)

-----------------------------------------------------------------------------
(* TradingPairFixedSlippage.process_order *)

Value(v) == [raises |-> "none", value |-> v]
Raises(e) == [raises |-> e, value |-> IntNum(0)]

One == IntNum(1)

BuyPrice(price, sp) == Value(NumMul(price, NumAdd(One, sp)))

\* price & (1 - spread): defined by Python for two ints only
SellPrice(price, sp) ==
    LET rhs == NumSub(One, sp) IN
    IF price.kind = "int" /\ rhs.kind = "int"
    THEN Value(IntNum(BitAnd(price.n, rhs.n)))
    ELSE Raises("TypeError")

ExecutionVolumeOpen(order) == order.open_amount

ExecutionVolume(order) == order.amount

ProcessOrderReadsTwice(reads) == [reads EXCEPT !.close = @ + 2]

ProcessOrderReads(reads) == [reads EXCEPT !.close = @ + 1]

\* process_order(data, order): [raises, price, volume, reads]
ProcessOrder(sp, data, order, reads) ==
    LET price == data.close
        adj == IF order.amount > 0 THEN BuyPrice(price, sp) ELSE SellPrice(price, sp)
    IN [raises |-> adj.raises, price |-> adj.value,
        volume |-> ExecutionVolume(order), reads |-> ProcessOrderReads(reads)]

-----------------------------------------------------------------------------
(* TradingPairFixedSlippage.simulate: a generator *)

\* the generator object simulate(data, asset, orders_for_asset) returns; its
\* body has not run yet
NewGen(data, orders, liqAt) ==
    [data |-> data, orders |-> orders, liqAt |-> liqAt,
     pc |-> "created",      \* created, yielded, returned, raised
     idx |-> 0,             \* position of the order the loop is at
     out |-> << >>,         \* the (order, transaction) pairs yielded
     reads |-> [volume |-> 0, close |-> 0],   \* data.current calls
     checks |-> << >>,      \* check_triggers calls: [id, price, dt]
     processed |-> << >>,   \* positions of the orders given to process_order
     caught |-> 0,          \* position at which LiquidityExceeded was caught
     error |-> "none",      \* exception raised to the caller
     acc |-> 0]             \* _volume_for_bar as this call last wrote it

VolumeNeverZero(volume) == FALSE

VolumeIsZero(volume) == volume = 0

SkipNothing(order) == FALSE

SkipFilled(order) == order.open_amount = 0

NotTriggered(order) == ~order.triggered

TransactionAmountSigned(execution_volume) == execution_volume

TransactionAmount(execution_volume) == Abs(execution_volume)

Transaction(order, data, execution_price, execution_volume) ==
    [amount |-> TransactionAmount(execution_volume), dt |-> data.dt,
     price |-> execution_price, order_id |-> order.id]

ExceptContinues == "continue"

ExceptLiquidityExceeded == "break"

\* one iteration of "for order in orders_for_asset": [g, vfb, ctl]
OrderStep(g, i, sp, vfb) ==
    LET order == g.orders[i] IN
    IF SkipFilled(order) THEN [g |-> g, vfb |-> vfb, ctl |-> "continue"]
    ELSE
    LET checked == CheckTriggers(order, g.data.close, g.data.dt)
        g1 == [g EXCEPT !.orders[i] = checked,
                        !.checks = Append(@, [id |-> order.id,
                                              price |-> g.data.close,
                                              dt |-> g.data.dt])]
    IN
    IF NotTriggered(checked) THEN [g |-> g1, vfb |-> vfb, ctl |-> "continue"]
    ELSE
    LET r == ProcessOrder(sp, g1.data, checked, g1.reads)
        g2 == [g1 EXCEPT !.reads = r.reads, !.processed = Append(@, i)]
    IN
    IF r.raises = "TypeError"
    THEN [g |-> [g2 EXCEPT !.error = "TypeError"], vfb |-> vfb, ctl |-> "raise"]
    ELSE IF LiquidityExceeded(g2, i)
    THEN [g |-> [g2 EXCEPT !.caught = i], vfb |-> vfb, ctl |-> ExceptLiquidityExceeded]
    ELSE
    LET transaction == Transaction(checked, g2.data, r.price, r.volume)
        total == vfb + Abs(transaction.amount)
    IN [g |-> [g2 EXCEPT !.out = Append(@, [order |-> i, transaction |-> transaction]),
                         !.acc = total],
        vfb |-> total, ctl |-> "yield"]

\* the loop from position i up to the next yield, the end or an exception
RECURSIVE Loop(_, _, _, _)
Loop(g, i, sp, vfb) ==
    IF i > Len(g.orders)
    THEN [g |-> [g EXCEPT !.pc = "returned", !.idx = i], vfb |-> vfb]
    ELSE
    LET r == OrderStep(g, i, sp, vfb) IN
    CASE r.ctl = "continue" -> Loop(r.g, i + 1, sp, r.vfb)
      [] r.ctl = "break" -> [g |-> [r.g EXCEPT !.pc = "returned", !.idx = i], vfb |-> r.vfb]
      [] r.ctl = "raise" -> [g |-> [r.g EXCEPT !.pc = "raised", !.idx = i], vfb |-> r.vfb]
      [] r.ctl = "yield" -> [g |-> [r.g EXCEPT !.pc = "yielded", !.idx = i], vfb |-> r.vfb]

\* the body from its first line to the first yield
Begin(g, sp) ==
    LET g1 == [g EXCEPT !.reads.volume = @ + 1, !.acc = 0] IN
    IF VolumeIsZero(g.data.volume)
    THEN [g |-> [g1 EXCEPT !.pc = "returned"], vfb |-> 0]
    ELSE Loop([g1 EXCEPT !.reads.close = @ + 1], 1, sp, 0)

\* first next() on generator c
Start(c) ==
    /\ gens[c].pc = "created"
    /\ LET r == Begin(gens[c], spread) IN
        /\ gens' = [gens EXCEPT ![c] = r.g]
        /\ volume_for_bar' = r.vfb
    /\ UNCHANGED <<spread, schedule, feeCall>>

\* a later next() on generator c: resumes after the yield
Resume(c) ==
    /\ gens[c].pc = "yielded"
    /\ LET r == Loop(gens[c], gens[c].idx + 1, spread, volume_for_bar) IN
        /\ gens' = [gens EXCEPT ![c] = r.g]
        /\ volume_for_bar' = r.vfb
    /\ UNCHANGED <<spread, schedule, feeCall>>

\* commission.calculate(order, transaction)
CalculateFee ==
    /\ ~feeCall.done
    /\ feeCall' = [feeCall EXCEPT
                     !.fee = Calculate(schedule, feeCall.order, feeCall.transaction),
                     !.done = TRUE]
    /\ UNCHANGED <<spread, volume_for_bar, gens, schedule>>

-----------------------------------------------------------------------------
(* Inputs *)

Spreads == {IntNum(0), FloatNum(0, 1), DEFAULT_SLIPPAGE_SPREAD}
Closes == {IntNum(1), IntNum(MaxClose), FloatNum(MaxClose, 1)}
Bars == [volume : {0, 1, MaxVolume}, close : Closes, dt : {1}]
Limits == {NoLimit, 1}
Amounts == {-MaxAmount, -1, 1, MaxAmount}

\* an open order: open_amount is what is left of amount, with its sign
OpenAmounts(amount) == {0, amount, IF amount > 0 THEN 1 ELSE -1}

OrderTypes ==
    UNION {[amount : {a}, open_amount : OpenAmounts(a), limit : Limits] : a \in Amounts}

MarketOrderTypes ==
    UNION {[amount : {a}, open_amount : {a}, limit : {NoLimit}] : a \in Amounts}

\* pending orders: the id is the position, a market order counts as triggered
Pending(types) ==
    [i \in DOMAIN types |->
        [id |-> i, amount |-> types[i].amount, open_amount |-> types[i].open_amount,
         limit |-> types[i].limit, triggered |-> types[i].limit = NoLimit]]

OrderLists(types) == UNION {{Pending(f) : f \in [1..n -> types]} : n \in 0..MaxOrders}

Idle ==
    [order |-> [limit |-> NoLimit],
     transaction |-> [amount |-> 0, price |-> One],
     given |-> [order |-> [limit |-> NoLimit],
                transaction |-> [amount |-> 0, price |-> One],
                schedule |-> [maker_fee |-> DEFAULT_MAKER_FEE,
                              taker_fee |-> DEFAULT_TAKER_FEE]],
     fee |-> IntNum(0), done |-> TRUE]

DefaultSchedule == [maker_fee |-> DEFAULT_MAKER_FEE, taker_fee |-> DEFAULT_TAKER_FEE]

-----------------------------------------------------------------------------
(* One simulate call on the blotter's slippage model *)

Init ==
    /\ spread \in Spreads
    /\ volume_for_bar = 0
    /\ \E data \in Bars, orders \in OrderLists(OrderTypes) :
         \E liqAt \in 0..Len(orders) :
            gens = [c \in {1} |-> NewGen(data, orders, liqAt)]
    /\ schedule = DefaultSchedule
    /\ feeCall = Idle

StartNext == \E c \in DOMAIN gens : Start(c)

ResumeNext == \E c \in DOMAIN gens : Resume(c)

Next == StartNext \/ ResumeNext

Spec == Init /\ [][Next]_vars

-----------------------------------------------------------------------------
(* Two simulate calls on the one slippage model instance the blotter holds,
   consumed interleaved *)

TwoBars == [volume : {0, MaxVolume}, close : {FloatNum(MaxClose, 1)}, dt : {1}]

InitTwo ==
    /\ spread = DEFAULT_SLIPPAGE_SPREAD
    /\ volume_for_bar = 0
    /\ \E d1 \in TwoBars, d2 \in TwoBars :
         \E o1 \in OrderLists(MarketOrderTypes), o2 \in OrderLists(MarketOrderTypes) :
            gens = [c \in {1, 2} |-> IF c = 1 THEN NewGen(d1, o1, 0) ELSE NewGen(d2, o2, 0)]
    /\ schedule = DefaultSchedule
    /\ feeCall = Idle

SpecTwo == InitTwo /\ [][Next]_vars

-----------------------------------------------------------------------------
(* One calculate call on a fee schedule *)

Fees == {IntNum(0), FloatNum(0, 1), DEFAULT_MAKER_FEE, DEFAULT_TAKER_FEE}
FeePrices == {FloatNum(p, 1) : p \in 1..MaxClose} \cup {FloatNum(102, 1)}
FeeOrders == [limit : Limits]
FeeTransactions == [amount : -MaxAmount..MaxAmount, price : FeePrices]

InitFee ==
    /\ spread = DEFAULT_SLIPPAGE_SPREAD
    /\ volume_for_bar = 0
    /\ gens = << >>
    /\ schedule \in [maker_fee : Fees, taker_fee : Fees]
    /\ \E order \in FeeOrders, transaction \in FeeTransactions :
         feeCall = [order |-> order, transaction |-> transaction,
                    given |-> [order |-> order, transaction |-> transaction,
                               schedule |-> schedule],
                    fee |-> IntNum(0), done |-> FALSE]

NextFee == CalculateFee

SpecFee == InitFee /\ [][NextFee]_vars

-----------------------------------------------------------------------------
(* Properties *)

RECURSIVE SumAmounts(_)
SumAmounts(out) ==
    IF out = << >> THEN 0
    ELSE out[1].transaction.amount + SumAmounts(Tail(out))

RECURSIVE SumOrdered(_, _)
SumOrdered(orders, out) ==
    IF out = << >> THEN 0
    ELSE Abs(orders[out[1].order].amount) + SumOrdered(orders, Tail(out))

Filled(g) == {g.out[k].order : k \in DOMAIN g.out}
Checked(g) == {g.checks[k].id : k \in DOMAIN g.checks}
Started(g) == g.pc # "created"

\* close * (1 + spread) for a buy, close * (1 - spread) for a sell
ExpectedPrice(g, order) ==
    IF order.amount > 0
    THEN [n |-> g.data.close.n * (spread.d + spread.n), d |-> g.data.close.d * spread.d]
    ELSE [n |-> g.data.close.n * (spread.d - spread.n), d |-> g.data.close.d * spread.d]

\* C1: every order simulate fills gets a transaction priced close * (1 + spread)
\* (buy) or close * (1 - spread) (sell); a triggered sell order does not fail.
C1_AdjustedPrice ==
    \A c \in DOMAIN gens :
        /\ gens[c].error = "none"
        /\ \A k \in DOMAIN gens[c].out :
             NumEq(gens[c].out[k].transaction.price,
                   ExpectedPrice(gens[c], gens[c].orders[gens[c].out[k].order]))

FillableBefore(g, k) ==
    {j \in 1..(k - 1) : g.orders[j].open_amount # 0 /\ g.orders[j].triggered}

C4_AmountPositive ==
    \A c \in DOMAIN gens :
        \A k \in DOMAIN gens[c].out : gens[c].out[k].transaction.amount > 0

C4_Witness ==
    \E c \in DOMAIN gens :
        \E k \in DOMAIN gens[c].out :
            /\ gens[c].orders[gens[c].out[k].order].amount < 0
            /\ gens[c].out[k].transaction.amount > 0

\* C5: on a bar of volume 0 simulate yields nothing, calls check_triggers on
\* no order, leaves every order as it was and never reads the close price.
C5_ZeroVolumeYieldsNothing ==
    \A c \in DOMAIN gens :
        (Started(gens[c]) /\ gens[c].data.volume = 0) =>
            /\ gens[c].pc = "returned"
            /\ gens[c].error = "none"
            /\ gens[c].out = << >>
            /\ gens[c].checks = << >>
            /\ gens[c].processed = << >>
            /\ gens[c].reads.close = 0
            /\ \A i \in DOMAIN gens[c].orders :
                 gens[c].orders[i].triggered = (gens[c].orders[i].limit = NoLimit)

C5_Witness ==
    \E c \in DOMAIN gens :
        /\ Started(gens[c])
        /\ gens[c].data.volume = 0
        /\ Len(gens[c].orders) = 2
        /\ gens[c].orders[1].open_amount > 0
        /\ gens[c].orders[1].limit = NoLimit

\* C6: a pair is yielded only for an order with open_amount # 0 that is
\* triggered after check_triggers(close, dt); an order with open_amount = 0 is
\* skipped unevaluated, an untriggered one is skipped, and the loop goes on to
\* the next order.
C6_OnlyOpenTriggeredOrders ==
    \A c \in DOMAIN gens :
        LET g == gens[c] IN
        /\ \A i \in Filled(g) :
             /\ g.orders[i].open_amount # 0
             /\ g.orders[i].triggered
             /\ \E k \in DOMAIN g.checks :
                  /\ g.checks[k].id = g.orders[i].id
                  /\ g.checks[k].price = g.data.close
                  /\ g.checks[k].dt = g.data.dt
        /\ \A i \in DOMAIN g.orders :
             /\ g.orders[i].open_amount = 0 => g.orders[i].id \notin Checked(g)
             /\ g.orders[i].open_amount = 0 =>
                  g.orders[i].triggered = (g.orders[i].limit = NoLimit)
        /\ (g.pc = "returned" /\ g.caught = 0 /\ g.data.volume # 0) =>
             /\ \A i \in DOMAIN g.orders :
                  g.orders[i].open_amount # 0 => g.orders[i].id \in Checked(g)
             /\ Filled(g) = FillableBefore(g, Len(g.orders) + 1)

C6_Witness ==
    \E c \in DOMAIN gens :
        /\ Len(gens[c].orders) = 2
        /\ gens[c].orders[1].open_amount = 0
        /\ gens[c].orders[1].limit # NoLimit
        /\ gens[c].orders[2].limit # NoLimit
        /\ Filled(gens[c]) = {2}

\* C7 as stated: one simulate call reads the bar's market data at most twice.
C7_AtMostTwoReads ==
    \A c \in DOMAIN gens : gens[c].reads.volume + gens[c].reads.close <= 2

\* C7 amended: one simulate call reads volume once and, when the volume is not
\* 0, close once itself and once more in process_order for each order that has
\* open_amount # 0 and is triggered: at most 2 + (number of orders) reads.
C7_ReadsPerProcessedOrder ==
    \A c \in DOMAIN gens :
        LET g == gens[c] IN
        Started(g) =>
            /\ g.reads.volume = 1
            /\ g.reads.close =
                 IF g.data.volume = 0 THEN 0 ELSE 1 + Len(g.processed)
            /\ \A k \in DOMAIN g.processed :
                 /\ g.orders[g.processed[k]].open_amount # 0
                 /\ g.orders[g.processed[k]].triggered
                 /\ \A j \in DOMAIN g.processed : g.processed[j] = g.processed[k] => j = k
            /\ g.reads.volume + g.reads.close <= 2 + Len(g.orders)

C7_Witness ==
    \E c \in DOMAIN gens :
        /\ Len(gens[c].processed) = 2
        /\ gens[c].reads.volume + gens[c].reads.close = 4

\* C8: calculate returns abs(transaction.amount) * transaction.price * taker_fee
\* whatever the order's type, so 0 when taker_fee is 0, and changes neither the
\* order nor the transaction nor the fee schedule.
C8_FeeIsTakerRate ==
    feeCall.done =>
        /\ feeCall.fee.n * (feeCall.transaction.price.d * schedule.taker_fee.d)
             = (Abs(feeCall.transaction.amount) * feeCall.transaction.price.n
                  * schedule.taker_fee.n) * feeCall.fee.d
        /\ schedule.taker_fee.n = 0 => feeCall.fee.n = 0
        /\ feeCall.order = feeCall.given.order
        /\ feeCall.transaction = feeCall.given.transaction
        /\ schedule = feeCall.given.schedule

C8_Witness ==
    /\ feeCall.done
    /\ feeCall.order.limit # NoLimit
    /\ feeCall.transaction.amount > 0
    /\ schedule.taker_fee = DEFAULT_TAKER_FEE
    /\ schedule.maker_fee = DEFAULT_MAKER_FEE
    /\ ~NumIsZero(feeCall.fee)

\* C9 as stated: the fee is 0 for every transaction whose amount is negative
\* or zero.
C9_DegenerateFillFeeZero ==
    (feeCall.done /\ feeCall.transaction.amount <= 0) => NumIsZero(feeCall.fee)

\* C9 amended: for a transaction of amount 0 the fee is 0; for a transaction of
\* negative amount the fee is -amount * price * taker_fee, which is 0 only
\* when taker_fee is 0.
C9_DegenerateFillFee ==
    (feeCall.done /\ feeCall.transaction.amount <= 0) =>
        /\ feeCall.transaction.amount = 0 => NumIsZero(feeCall.fee)
        /\ feeCall.transaction.amount < 0 =>
             /\ feeCall.fee.n * (feeCall.transaction.price.d * schedule.taker_fee.d)
                  = ((0 - feeCall.transaction.amount) * feeCall.transaction.price.n
                       * schedule.taker_fee.n) * feeCall.fee.d
             /\ NumIsZero(feeCall.fee) <=> NumIsZero(schedule.taker_fee)

C9_Witness ==
    /\ feeCall.done
    /\ feeCall.transaction.amount < 0
    /\ ~NumIsZero(schedule.taker_fee)
    /\ feeCall.fee.n > 0

\* C10: the volume accumulator a simulate call works with is the sum of the
\* amounts of the transactions that call has yielded, whatever another call
\* on the same instance does in between.
C10_AccumulatorScopedToCall ==
    \A c \in DOMAIN gens :
        /\ Started(gens[c]) => gens[c].acc = SumAmounts(gens[c].out)
        /\ gens[c].pc = "yielded" => volume_for_bar = SumAmounts(gens[c].out)

====
